---- MODULE Spec2Model ----
(***************************************************************************)
(* ASTRA-X Aggregator: the message log, the per-request database session   *)
(* (get_db), the three request handlers of app/main.py, the context        *)
(* assembler build_llm_messages and the dispatcher call_llm.               *)
(*                                                                         *)
(* Time is counted in minutes.  A stored message is a record               *)
(*   [id, ts, role, text, req, cseq]                                       *)
(* where id and ts are the columns of models.Message, and req / cseq are   *)
(* history fields: the request whose session added the row and the global  *)
(* rank of the create_message call that made it.                           *)
(***************************************************************************)
EXTENDS Integers, Sequences, FiniteSets, TLC

VARIABLES
    log,        \* committed rows of table "messages", in insertion (id) order
    summaries,  \* committed rows of table "summaries", in insertion order
    settings,   \* config.settings.settings plus the two prompt files
    clock,      \* datetime.utcnow(), in minutes
    req,        \* per worker: the request being handled (locals of the handler)
    session,    \* per worker: pending rows of the request's Session (db.add)
    nextRid,    \* number of requests received so far
    nCreated,   \* number of create_message calls so far
    call        \* last direct call of a query / assembler function, with result

vars == <<log, summaries, settings, clock, req, session, nextRid, nCreated, call>>

----------------------------------------------------------------------------
(* Bounds of the model *)

\* largest clock reading
MaxClock == 1
\* rows of the message log drawn for the direct calls
MaxLog == 3
\* rows of the summary store
MaxSumm == 2

\* two workers, each serving one request
Procs == {1, 2}

(* Program constants *)

\* default of build_llm_messages(short_window_minutes=...)
short_window_minutes == 15
\* default of build_llm_messages(summary_limit=...)
summary_limit == 30

\* Python None / SQL NULL / a missing JSON key
NULL == "<None>"

----------------------------------------------------------------------------
(* Small helpers over sequences *)

Range(s) == {s[i] : i \in 1..Len(s)}

Reverse(s) == [i \in 1..Len(s) |-> s[Len(s) + 1 - i]]

Min2(a, b) == IF a <= b THEN a ELSE b

\* All orderings of the rows in S that are ascending in ts.  ORDER BY ts ASC
\* names no second key, so rows with equal ts may come back in any order.
RECURSIVE OrderByTsAsc(_)
OrderByTsAsc(S) ==
    IF S = {} THEN {<<>>}
    ELSE UNION { { <<m>> \o t : t \in OrderByTsAsc(S \ {m}) }
                 : m \in {x \in S : \A y \in S : x.ts <= y.ts} }

\* All orderings of the rows in S that are descending in ts.
OrderByTsDesc(S) == { Reverse(s) : s \in OrderByTsAsc(S) }

\* LIMIT n applied to a result sequence
Limit(s, n) == SubSeq(s, 1, Min2(n, Len(s)))

----------------------------------------------------------------------------
(* app/crud.py: the queries.  Each returns the SET of result sequences the  *)
(* database may produce for the statement.                                  *)

\* variant: the lower bound is inclusive (ts >= since)
get_recent_messages_inclusive(rows, since) ==
    OrderByTsAsc({m \in Range(rows) : m.ts >= since})

get_recent_messages(rows, since) ==
    OrderByTsAsc({m \in Range(rows) : m.ts > since})

get_messages_between(rows, start, end) ==
    OrderByTsAsc({m \in Range(rows) : m.ts >= start /\ m.ts <= end})

\* subquery: SELECT ts ORDER BY ts DESC LIMIT n  -> the set of ts values kept
LastTsValues(rows, n) ==
    { {r.ts : r \in Range(Limit(d, n))} : d \in OrderByTsDesc(Range(rows)) }

get_last_n_messages(rows, n) ==
    IF n <= 0 THEN {<<>>}
    ELSE UNION { OrderByTsAsc({m \in Range(rows) : m.ts \in tsv})
                 : tsv \in LastTsValues(rows, n) }

get_recent_summaries(rows, n) ==
    IF n <= 0 THEN {<<>>}
    ELSE { Reverse(Limit(d, n)) : d \in OrderByTsDesc(Range(rows)) }

----------------------------------------------------------------------------
(* Strings.  str.lower() and str.upper() over the strings of the model.    *)

Lower(s) ==
    CASE s = "User" -> "user"
      [] s = "ASSISTANT" -> "assistant"
      [] s = "OpenAI" -> "openai"
      [] s = "Ollama" -> "ollama"
      [] OTHER -> s

Upper(s) ==
    CASE s = "down" -> "DOWN"
      [] s = "up" -> "UP"
      [] s = "unknown" -> "UNKNOWN"
      [] OTHER -> s

\* Python truth value of an Optional[str]
Truthy(s) == s # NULL /\ s # ""

\* Python `a or b`
Or(a, b) == IF Truthy(a) THEN a ELSE b

----------------------------------------------------------------------------
(* config/settings.py *)

get_static_prompt(cfg) == Or(cfg.prompt_static, "")

get_structure_prompt(cfg) == Or(cfg.prompt_structure, "")

----------------------------------------------------------------------------
(* app/utils.py: build_llm_messages *)

Entry(role, content) == [role |-> role, content |-> content]

InstructionEntries(cfg) ==
    (IF Truthy(get_static_prompt(cfg))
        THEN <<Entry("system", get_static_prompt(cfg))>> ELSE <<>>)
    \o (IF Truthy(get_structure_prompt(cfg))
        THEN <<Entry("system", get_structure_prompt(cfg))>> ELSE <<>>)
    \o (IF Truthy(cfg.system_prompt_override)
        THEN <<Entry("system", cfg.system_prompt_override)>> ELSE <<>>)

SummaryEntry(s) == Entry("system", s.summary_text)

\* for summary in summaries: messages.append(...)
SummaryEntries(sums) == [i \in 1..Len(sums) |-> SummaryEntry(sums[i])]

\* variant: the role is lower-cased but never mapped to "system"
MappedRole_unmapped(r) == Lower(r)

MappedRole(r) ==
    IF Lower(r) \notin {"user", "assistant"} THEN "system" ELSE Lower(r)

ShortEntry(m) == Entry(MappedRole(m.role), m.text)

\* for m in short_msgs: messages.append(...)
ShortEntries(short_msgs) ==
    [i \in 1..Len(short_msgs) |-> ShortEntry(short_msgs[i])]

\* variant: the current input is never appended
Assemble_without_current(cfg, sums, short_msgs, current_text, current_role) ==
    InstructionEntries(cfg)
    \o SummaryEntries(sums)
    \o ShortEntries(short_msgs)

\* variant: the summaries are appended after the short-term messages
Assemble_summaries_last(cfg, sums, short_msgs, current_text, current_role) ==
    InstructionEntries(cfg)
    \o ShortEntries(short_msgs)
    \o SummaryEntries(sums)
    \o <<Entry(current_role, current_text)>>

\* the assembled list, given the two query results
Assemble(cfg, sums, short_msgs, current_text, current_role) ==
    InstructionEntries(cfg)
    \o SummaryEntries(sums)
    \o ShortEntries(short_msgs)
    \o <<Entry(current_role, current_text)>>

\* every list build_llm_messages may return: one per pair of query results
build_llm_messages(cfg, msgRows, sumRows, now, current_text, current_role, window, limit) ==
    { Assemble(cfg, sums, short_msgs, current_text, current_role)
      : sums \in get_recent_summaries(sumRows, limit),
        short_msgs \in get_recent_messages(msgRows, now - window) }

----------------------------------------------------------------------------
(* app/utils.py: the payload normalisers.  A webhook payload is a record    *)
(* [json, monitor_name, name, status, event, msg, message, monitor_url,     *)
(* url]: json is "invalid" (not JSON), "array" (JSON, not an object) or     *)
(* "object"; a key the object lacks is NULL.                                 *)

format_uptime_payload(payload) ==
    LET name == Or(Or(payload.monitor_name, payload.name), "Unknown monitor")
        status == Or(Or(payload.status, payload.event), "unknown")
        message == Or(payload.msg, payload.message)
        url == Or(payload.monitor_url, payload.url)
    IN  "[Uptime Kuma] " \o name \o " is " \o Upper(status)
        \o (IF Truthy(url) THEN " | URL: " \o url ELSE "")
        \o (IF Truthy(message) THEN " | Message: " \o message ELSE "")

\* json.dumps(payload, ensure_ascii=False, indent=2) over the payloads drawn
format_generic_payload(payload) ==
    CASE payload.json = "array" -> "[]"
      [] payload.monitor_name # NULL ->
            "{\n  \"monitor_name\": \"" \o payload.monitor_name \o "\"\n}"
      [] OTHER -> "{}"

----------------------------------------------------------------------------
(* app/main.py: call_llm.  A backend response is a record                   *)
(* [status, shape, content]: status is "connect_error", "http_error" (a     *)
(* non-2xx status) or "ok"; shape is the JSON shape of a 2xx body; content  *)
(* is the reply field of the shapes that carry one (ABSENT: no such key,    *)
(* NULL: JSON null).                                                        *)

ABSENT == "<absent>"

Shapes == {"not_json", "array", "empty_object", "message_str", "message_obj",
           "choices_empty", "choices_msg"}

Contents == {ABSENT, NULL, "", "Hello"}

Responses ==
    { [status |-> st, shape |-> "empty_object", content |-> ABSENT]
      : st \in {"connect_error", "http_error"} }
    \cup { [status |-> "ok", shape |-> sh, content |-> ABSENT]
           : sh \in Shapes \ {"message_obj", "choices_msg"} }
    \cup { [status |-> "ok", shape |-> sh, content |-> c]
           : sh \in {"message_obj", "choices_msg"}, c \in Contents }

Failed(kind) == [outcome |-> kind, reply |-> NULL]

Returned(text) == [outcome |-> "ok", reply |-> text]

\* lines 97-101: data.get("message", {}).get("content")
ollama_reply(resp) ==
    CASE resp.shape \in {"not_json", "array", "message_str"} ->
            Failed("InternalError")
      [] resp.shape = "message_obj" /\ resp.content \notin {ABSENT, NULL} ->
            Returned(resp.content)
      [] OTHER -> Failed("BackendProtocolError")

\* lines 123-128: data["choices"][0]["message"]["content"] in try/except
openai_reply(resp) ==
    CASE resp.shape = "not_json" -> Failed("InternalError")
      [] resp.shape = "choices_msg" /\ resp.content # ABSENT ->
            Returned(resp.content)
      [] OTHER -> Failed("BackendProtocolError")

\* variant: the hosted backend is posted to before the key is looked at
call_llm_begin_posts_first(cfg) ==
    LET provider == Lower(cfg.provider) IN
    CASE provider = "ollama" -> [calls |-> 1, raised |-> "none"]
      [] provider = "openai" ->
            IF ~Truthy(cfg.openai_api_key)
            THEN [calls |-> 1, raised |-> "MissingCredential"]
            ELSE [calls |-> 1, raised |-> "none"]
      [] OTHER -> [calls |-> 0, raised |-> "UnsupportedBackend"]

\* call_llm up to its network call (lines 81-93, 102-119): the number of
\* network calls issued and the failure raised ("none": awaiting the reply)
call_llm_begin(cfg) ==
    LET provider == Lower(cfg.provider) IN
    CASE provider = "ollama" -> [calls |-> 1, raised |-> "none"]
      [] provider = "openai" ->
            IF ~Truthy(cfg.openai_api_key)
            THEN [calls |-> 0, raised |-> "MissingCredential"]
            ELSE [calls |-> 1, raised |-> "none"]
      [] OTHER -> [calls |-> 0, raised |-> "UnsupportedBackend"]

\* call_llm once its network call has resolved (lines 94-101, 120-128)
call_llm_end(cfg, resp) ==
    IF resp.status # "ok" THEN Failed("BackendUnavailable")
    ELSE IF Lower(cfg.provider) = "ollama" THEN ollama_reply(resp)
    ELSE openai_reply(resp)

----------------------------------------------------------------------------
(* Request bodies *)

\* a JSON value that is not a string (the number 5)
NUM == "<number>"

IsStr(v) == v \notin {NULL, NUM}

ChatBodies ==
    { [json |-> j, text |-> NULL, message |-> NULL] : j \in {"invalid", "array"} }
    \cup { [json |-> "object", text |-> t, message |-> m]
           : t \in {NULL, "", "hi", NUM}, m \in {NULL, "hi"} }

Payload(j, mn, st, ms) ==
    [json |-> j, monitor_name |-> mn, name |-> NULL, status |-> st,
     event |-> NULL, msg |-> ms, message |-> NULL, monitor_url |-> NULL,
     url |-> NULL]

UptimePayloads ==
    { Payload("invalid", NULL, NULL, NULL), Payload("array", NULL, NULL, NULL),
      Payload("object", "API", "down", NULL) }

GenericPayloads ==
    { Payload("invalid", NULL, NULL, NULL), Payload("array", NULL, NULL, NULL),
      Payload("object", NULL, NULL, NULL) }

----------------------------------------------------------------------------
(* app/crud.py: create_message.  db.add() only puts the row in the Session: *)
(* id and ts (Column default=utcnow) are filled in by the INSERT, which the *)
(* commit of get_db issues.                                                 *)

create_message(pending, role, text, rid, seq) ==
    Append(pending, [role |-> role, text |-> text, req |-> rid, cseq |-> seq])

\* the rows the INSERTs of one flush add: ids in order of db.add, ts read
\* from the clock once per row (t1 for the first row, t2 for the others)
Flush(pending, base, t1, t2) ==
    [i \in 1..Len(pending) |->
        [id |-> base + i, ts |-> IF i = 1 THEN t1 ELSE t2,
         role |-> pending[i].role, text |-> pending[i].text,
         req |-> pending[i].req, cseq |-> pending[i].cseq]]

----------------------------------------------------------------------------
(* State of one worker.  pc is where the request stands: "awaiting" (inside *)
(* call_llm, suspended on client.post), "returning" (the handler returned,  *)
(* get_db has not yet resumed), "raised" (the handler raised, get_db has    *)
(* not yet resumed), "done".                                                *)

\* no response of the backend received (yet)
NoResp == [status |-> "none", shape |-> "none", content |-> ABSENT]

IdleReq ==
    [pc |-> "idle", kind |-> "none", rid |-> 0, text |-> NULL,
     prompt |-> <<>>, reply |-> NULL, outcome |-> "none", calls |-> 0,
     resp |-> NoResp]

CanStart(p) == req[p].pc = "idle"

\* the handler raises: its locals are dead from here on
Raise(r, kind) ==
    [r EXCEPT !.pc = "raised", !.outcome = kind, !.prompt = <<>>]

\* the request is over: only its outcome is left
Finished(r, kind) ==
    [IdleReq EXCEPT !.pc = "done", !.kind = r.kind, !.rid = r.rid,
                    !.outcome = kind, !.calls = r.calls]

----------------------------------------------------------------------------
(* app/main.py: what each handler does with the request body before its    *)
(* first create_message: the failure it raises, or the text it goes on with *)

Rejected(kind) == [outcome |-> kind, text |-> NULL]

Accepted(text) == [outcome |-> "ok", text |-> text]

\* chat_endpoint, lines 139-145
chat_input(body) ==
    LET text == Or(body.text, body.message) IN
    CASE body.json = "invalid" -> Rejected("InvalidInput")
      [] body.json = "array" -> Rejected("InternalError")
      [] ~Truthy(text) \/ ~IsStr(text) -> Rejected("InvalidInput")
      [] OTHER -> Accepted(text)

\* uptime_kuma_webhook, lines 182-187
uptime_input(payload) ==
    CASE payload.json = "invalid" -> Rejected("InvalidInput")
      [] payload.json = "array" -> Rejected("InternalError")
      [] OTHER -> Accepted(format_uptime_payload(payload))

\* generic_webhook, lines 226-231
generic_input(payload) ==
    CASE payload.json = "invalid" -> Rejected("InvalidInput")
      [] OTHER -> Accepted(format_generic_payload(payload))

----------------------------------------------------------------------------
(* app/main.py: the handlers.  A handler runs on the event loop, so it is   *)
(* atomic between its awaits: one step from the request to the await of     *)
(* client.post, one step from the response to its return.  get_db's commit  *)
(* or rollback is a step of its own.                                        *)

\* variant: the triggering row is added before the body is validated
handler_begin_records_first(p, kind, role, current_role, input) ==
    /\ CanStart(p)
    /\ nextRid' = nextRid + 1
    /\ session' = [session EXCEPT ![p] =
            create_message(<<>>, role, input.text, nextRid + 1, nCreated + 1)]
    /\ nCreated' = nCreated + 1
    /\ LET r == [IdleReq EXCEPT !.kind = kind, !.rid = nextRid + 1] IN
       IF input.outcome # "ok"
       THEN req' = [req EXCEPT ![p] = Raise(r, input.outcome)]
       ELSE \E prompt \in build_llm_messages(settings, log, summaries,
                                clock, input.text, current_role,
                                short_window_minutes, summary_limit) :
               LET c == call_llm_begin(settings)
                   r2 == [r EXCEPT !.text = input.text, !.calls = c.calls]
               IN req' = [req EXCEPT ![p] =
                    IF c.raised = "none"
                    THEN [r2 EXCEPT !.pc = "awaiting", !.prompt = prompt]
                    ELSE Raise(r2, c.raised)]
    /\ UNCHANGED <<log, summaries, settings, clock, call>>

\* variant: create_message commits the triggering row itself
handler_begin_commits_input(p, kind, role, current_role, input) ==
    /\ CanStart(p)
    /\ nextRid' = nextRid + 1
    /\ session' = [session EXCEPT ![p] = <<>>]
    /\ LET r == [IdleReq EXCEPT !.kind = kind, !.rid = nextRid + 1] IN
       IF input.outcome # "ok"
       THEN /\ req' = [req EXCEPT ![p] = Raise(r, input.outcome)]
            /\ UNCHANGED <<nCreated, log>>
       ELSE /\ log' = log \o Flush(create_message(<<>>, role, input.text,
                                                  r.rid, nCreated + 1),
                                   Len(log), clock, clock)
            /\ nCreated' = nCreated + 1
            /\ \E prompt \in build_llm_messages(settings, log, summaries,
                                clock, input.text, current_role,
                                short_window_minutes, summary_limit) :
               LET c == call_llm_begin(settings)
                   r2 == [r EXCEPT !.text = input.text, !.calls = c.calls]
               IN req' = [req EXCEPT ![p] =
                    IF c.raised = "none"
                    THEN [r2 EXCEPT !.pc = "awaiting", !.prompt = prompt]
                    ELSE Raise(r2, c.raised)]
    /\ UNCHANGED <<summaries, settings, clock, call>>

\* From the request to the await inside call_llm: validate, create_message
\* (the triggering row), build_llm_messages, call_llm up to client.post.
\* The Session has autoflush off, so the queries of build_llm_messages see
\* the committed rows only.
handler_begin(p, kind, role, current_role, input) ==
    /\ CanStart(p)
    /\ nextRid' = nextRid + 1
    /\ LET r == [IdleReq EXCEPT !.kind = kind, !.rid = nextRid + 1] IN
       IF input.outcome # "ok"
       THEN /\ req' = [req EXCEPT ![p] = Raise(r, input.outcome)]
            /\ session' = [session EXCEPT ![p] = <<>>]
            /\ UNCHANGED nCreated
       ELSE /\ session' = [session EXCEPT ![p] =
                    create_message(<<>>, role, input.text, r.rid,
                                   nCreated + 1)]
            /\ nCreated' = nCreated + 1
            /\ \E prompt \in build_llm_messages(settings, log, summaries,
                                clock, input.text, current_role,
                                short_window_minutes, summary_limit) :
               LET c == call_llm_begin(settings)
                   r2 == [r EXCEPT !.text = input.text, !.calls = c.calls]
               IN req' = [req EXCEPT ![p] =
                    IF c.raised = "none"
                    THEN [r2 EXCEPT !.pc = "awaiting", !.prompt = prompt]
                    ELSE Raise(r2, c.raised)]
    /\ UNCHANGED <<log, summaries, settings, clock, call>>

chat_endpoint(p, body) ==
    handler_begin(p, "chat", "user", "user", chat_input(body))

uptime_kuma_webhook(p, payload) ==
    handler_begin(p, "uptime-kuma", "event", "system", uptime_input(payload))

generic_webhook(p, payload) ==
    handler_begin(p, "generic", "event", "system", generic_input(payload))

\* variant: a failed backend call is recorded as an assistant row too
handler_resume_records_failure(p, resp) ==
    /\ req[p].pc = "awaiting"
    /\ LET res == call_llm_end(settings, resp) IN
       /\ session' = [session EXCEPT ![p] =
                create_message(@, "assistant",
                               IF res.outcome = "ok" THEN res.reply
                               ELSE res.outcome,
                               req[p].rid, nCreated + 1)]
       /\ nCreated' = nCreated + 1
       /\ req' = [req EXCEPT ![p] =
                IF res.outcome = "ok"
                THEN [@ EXCEPT !.pc = "returning", !.reply = res.reply,
                               !.outcome = "ok", !.prompt = <<>>,
                               !.resp = resp]
                ELSE Raise([@ EXCEPT !.resp = resp], res.outcome)]
    /\ UNCHANGED <<log, summaries, settings, clock, nextRid, call>>

\* variant: after a transport failure the network call is issued again
handler_resume_retries(p, resp) ==
    /\ req[p].pc = "awaiting"
    /\ LET res == call_llm_end(settings, resp) IN
       IF res.outcome = "ok"
       THEN /\ session' = [session EXCEPT ![p] =
                    create_message(@, "assistant", res.reply, req[p].rid,
                                   nCreated + 1)]
            /\ nCreated' = nCreated + 1
            /\ req' = [req EXCEPT ![p].pc = "returning",
                                  ![p].reply = res.reply,
                                  ![p].outcome = "ok",
                                  ![p].prompt = <<>>,
                                  ![p].resp = resp]
       ELSE IF res.outcome = "BackendUnavailable" /\ req[p].calls < 2
       THEN /\ req' = [req EXCEPT ![p].calls = @ + 1]
            /\ UNCHANGED <<session, nCreated>>
       ELSE /\ req' = [req EXCEPT ![p] =
                    Raise([@ EXCEPT !.resp = resp], res.outcome)]
            /\ UNCHANGED <<session, nCreated>>
    /\ UNCHANGED <<log, summaries, settings, clock, nextRid, call>>

\* From the response of the backend to the handler's return: the rest of
\* call_llm, then create_message (the assistant row).
handler_resume(p, resp) ==
    /\ req[p].pc = "awaiting"
    /\ LET res == call_llm_end(settings, resp) IN
       IF res.outcome = "ok"
       THEN /\ session' = [session EXCEPT ![p] =
                    create_message(@, "assistant", res.reply, req[p].rid,
                                   nCreated + 1)]
            /\ nCreated' = nCreated + 1
            /\ req' = [req EXCEPT ![p].pc = "returning",
                                  ![p].reply = res.reply,
                                  ![p].outcome = "ok",
                                  ![p].prompt = <<>>,
                                  ![p].resp = resp]
       ELSE /\ req' = [req EXCEPT ![p] =
                    Raise([@ EXCEPT !.resp = resp], res.outcome)]
            /\ UNCHANGED <<session, nCreated>>
    /\ UNCHANGED <<log, summaries, settings, clock, nextRid, call>>

----------------------------------------------------------------------------
(* app/database.py: get_db after the yield *)

\* the handler returned: db.commit().  A NULL text violates nullable=False,
\* the commit raises and the except branch rolls back.
get_db_commit(p) ==
    /\ req[p].pc = "returning"
    /\ IF \E i \in 1..Len(session[p]) : session[p][i].text = NULL
       THEN /\ req' = [req EXCEPT ![p] = Finished(@, "StoreError")]
            /\ UNCHANGED <<log, clock>>
       ELSE \E t2 \in clock..Min2(clock + 1, MaxClock) :
            /\ log' = log \o Flush(session[p], Len(log), clock, t2)
            /\ clock' = t2
            /\ req' = [req EXCEPT ![p] = Finished(@, "ok")]
    /\ session' = [session EXCEPT ![p] = <<>>]
    /\ UNCHANGED <<summaries, settings, nextRid, nCreated, call>>

\* variant: the pending rows are committed although the handler raised
get_db_rollback_commits(p) ==
    /\ req[p].pc = "raised"
    /\ log' = log \o Flush(session[p], Len(log), clock, clock)
    /\ session' = [session EXCEPT ![p] = <<>>]
    /\ req' = [req EXCEPT ![p] = Finished(@, @.outcome)]
    /\ UNCHANGED <<summaries, settings, clock, nextRid, nCreated, call>>

\* the handler raised: db.rollback() drops the pending rows, then the
\* exception goes on to the caller
get_db_rollback(p) ==
    /\ req[p].pc = "raised"
    /\ session' = [session EXCEPT ![p] = <<>>]
    /\ req' = [req EXCEPT ![p] = Finished(@, @.outcome)]
    /\ UNCHANGED <<log, summaries, settings, clock, nextRid, nCreated, call>>

\* time passes
Tick ==
    /\ clock < MaxClock
    /\ clock' = clock + 1
    /\ UNCHANGED <<log, summaries, settings, req, session, nextRid, nCreated,
                   call>>

----------------------------------------------------------------------------
(* The service: concurrent requests on an initially empty log *)

Settings(provider, key, static, structure, override) ==
    [provider |-> provider, openai_api_key |-> key, prompt_static |-> static,
     prompt_structure |-> structure, system_prompt_override |-> override]

SummaryRow(i) ==
    [id |-> i, ts |-> i - 1, summary_text |-> "s" \o ToString(i)]

SummaryRows(n) == [i \in 1..n |-> SummaryRow(i)]

NoCall == [op |-> "none"]

Init ==
    /\ log = <<>>
    /\ summaries = SummaryRows(1)
    /\ settings \in { Settings(pk[1], pk[2], "STATIC", NULL, NULL)
                      : pk \in { <<"ollama", NULL>>, <<"OpenAI", "sk-1">>,
                                 <<"openai", NULL>>, <<"claude", NULL>> } }
    /\ clock = 0
    /\ req = [p \in Procs |-> IdleReq]
    /\ session = [p \in Procs |-> <<>>]
    /\ nextRid = 0
    /\ nCreated = 0
    /\ call = NoCall

Next ==
    \/ \E p \in Procs, body \in ChatBodies : chat_endpoint(p, body)
    \/ \E p \in Procs, payload \in UptimePayloads :
            uptime_kuma_webhook(p, payload)
    \/ \E p \in Procs, payload \in GenericPayloads :
            generic_webhook(p, payload)
    \/ \E p \in Procs, resp \in Responses : handler_resume(p, resp)
    \/ \E p \in Procs : get_db_commit(p)
    \/ \E p \in Procs : get_db_rollback(p)
    \/ Tick

Spec == Init /\ [][Next]_vars

----------------------------------------------------------------------------
(* Direct calls of the assembler and of the tail query on a stored log:    *)
(* the store is drawn from the logs the service can hold (ts ascending in   *)
(* id order, ties allowed) with any stored role, the prompt texts from      *)
(* present / absent.                                                        *)

StoredRoles == {"user", "assistant", "event", "User"}

MessageRow(i, ts, role) ==
    [id |-> i, ts |-> ts, role |-> role, text |-> "m" \o ToString(i),
     req |-> 0, cseq |-> i]

Logs ==
    UNION { { [i \in 1..n |-> MessageRow(i, t[i], r[i])]
              : t \in { f \in [1..n -> 0..MaxClock]
                        : \A i \in 1..n, j \in 1..n : i < j => f[i] <= f[j] },
                r \in [1..n -> StoredRoles] }
            : n \in 0..MaxLog }

InitCalls ==
    /\ log \in Logs
    /\ summaries = SummaryRows(MaxSumm)
    /\ settings \in { Settings("ollama", NULL, pr[1], pr[2], pr[3])
                      : pr \in { <<"STATIC", "STRUCT", "OVR">>,
                                 <<"STATIC", NULL, "OVR">>,
                                 <<NULL, "STRUCT", "">>,
                                 <<"", NULL, NULL>> } }
    /\ clock = MaxClock
    /\ req = [p \in Procs |-> IdleReq]
    /\ session = [p \in Procs |-> <<>>]
    /\ nextRid = 0
    /\ nCreated = 0
    /\ call = NoCall

StoreVars == <<log, summaries, settings, clock, req, session, nextRid, nCreated>>

call_build_llm_messages(current_text, current_role, window, limit) ==
    /\ call = NoCall
    /\ \E out \in build_llm_messages(settings, log, summaries, clock,
                        current_text, current_role, window, limit) :
          call' = [op |-> "build_llm_messages",
                   args |-> [current_text |-> current_text,
                             current_role |-> current_role,
                             window |-> window, limit |-> limit],
                   out |-> out]
    /\ UNCHANGED StoreVars

call_get_last_n_messages(n) ==
    /\ call = NoCall
    /\ \E out \in get_last_n_messages(log, n) :
          call' = [op |-> "get_last_n_messages", args |-> [n |-> n],
                   out |-> out]
    /\ UNCHANGED StoreVars

\* the assembler is called a second time with the same arguments, on the
\* same store, settings and clock reading
call_build_llm_messages_again ==
    /\ call.op = "build_llm_messages"
    /\ \E out2 \in build_llm_messages(settings, log, summaries, clock,
                        call.args.current_text, call.args.current_role,
                        call.args.window, call.args.limit) :
          call' = [op |-> "build_llm_messages_again", args |-> call.args,
                   out |-> call.out, out2 |-> out2]
    /\ UNCHANGED StoreVars

NextCalls ==
    \/ \E current_role \in {"user", "system"},
          window \in {0, 1, short_window_minutes},
          limit \in {0, 1, summary_limit} :
            call_build_llm_messages("cur", current_role, window, limit)
    \/ \E n \in -1..(MaxLog + 1) : call_get_last_n_messages(n)

SpecCalls == InitCalls /\ [][NextCalls]_vars

\* two consecutive calls of the assembler from a request handler (defaults
\* of limit; the window at the cutoff edge and at its default)
NextTwice ==
    \/ \E window \in {1, short_window_minutes} :
            call_build_llm_messages("cur", "user", window, summary_limit)
    \/ call_build_llm_messages_again

SpecTwice == InitCalls /\ [][NextTwice]_vars

----------------------------------------------------------------------------
(* Properties of the service (Spec) *)

\* the failures of the backend call
BackendFailures ==
    {"BackendUnavailable", "BackendProtocolError", "UnsupportedBackend",
     "MissingCredential"}

RowsOf(rows, rid) == {m \in Range(rows) : m.req = rid}

FailedBackend(p) ==
    req[p].pc = "done" /\ req[p].outcome \in BackendFailures

\* C1 as stated: after a backend failure the committed log still holds the
\* request's triggering user/event row (and no assistant row for it).
C1_InputKeptAfterFailure ==
    \A p \in Procs : FailedBackend(p) =>
        /\ \E m \in RowsOf(log, req[p].rid) : m.role \in {"user", "event"}
        /\ \A m \in RowsOf(log, req[p].rid) : m.role # "assistant"

\* C1 (amended): once a request whose backend call failed has finished, the
\* committed log holds no row of that request at all, neither the
\* triggering user/event row nor an assistant row: get_db rolls the
\* recorded input back.
C1_FailureRollsInputBack ==
    \A p \in Procs : FailedBackend(p) =>
        RowsOf(log, req[p].rid) = {} /\ session[p] = <<>>

\* a request ended in a backend failure while another one was committed
C1_Witness ==
    \E p \in Procs, q \in Procs :
        /\ FailedBackend(p) /\ req[p].outcome = "BackendUnavailable"
        /\ req[q].pc = "done" /\ req[q].outcome = "ok"
        /\ RowsOf(log, req[q].rid) # {}

\* C2: an assistant row exists for a request (pending in its Session or
\* committed) only when the request's backend call has returned a reply,
\* which is after its context read; a request still awaiting the backend,
\* or whose call failed, has no assistant row.
C2_ReplyOnlyAfterBackendSuccess ==
    \A p \in Procs :
        LET mine == RowsOf(session[p], req[p].rid) \cup RowsOf(log, req[p].rid)
            replies == {m \in mine : m.role = "assistant"}
        IN /\ replies # {} =>
                /\ req[p].pc \in {"returning", "done"}
                /\ req[p].outcome = "ok"
                /\ req[p].calls = 1
                /\ \A m \in replies : \E t \in mine :
                        t.role \in {"user", "event"} /\ t.cseq < m.cseq
           /\ req[p].pc = "returning" =>
                replies = {session[p][Len(session[p])]}
                /\ session[p][Len(session[p])].text = req[p].reply
           /\ req[p].pc \in {"awaiting", "raised"} => replies = {}

\* a handler has just added its assistant row
C2_Witness ==
    \E p \in Procs :
        /\ req[p].pc = "returning"
        /\ Len(session[p]) = 2
        /\ session[p][2].role = "assistant"

\* C7 as stated: every stored message has non-empty text.
C7_TextNeverEmpty ==
    \A i \in 1..Len(log) : log[i].text # "" /\ log[i].text # NULL

\* C8 as stated: a message created before another one has a timestamp that
\* is not later.
C8_TsFollowsCreation ==
    \A i \in 1..Len(log), j \in 1..Len(log) :
        log[i].cseq < log[j].cseq => log[i].ts <= log[j].ts

ConfigFailures == {"UnsupportedBackend", "MissingCredential"}

\* C9: a request that fails with UnsupportedBackend or MissingCredential has
\* issued no network call; an unsupported provider, or the hosted backend
\* without a key, never gets a network call and fails with exactly that
\* outcome.
C9_NoCallOnConfigFailure ==
    \A p \in Procs :
        /\ req[p].outcome \in ConfigFailures => req[p].calls = 0
        /\ req[p].calls > 0 =>
              \/ settings.provider \in {"ollama", "Ollama"}
              \/ /\ settings.provider \in {"openai", "OpenAI"}
                 /\ settings.openai_api_key \notin {NULL, ""}
        /\ req[p].outcome = "UnsupportedBackend" =>
              settings.provider \notin {"ollama", "Ollama", "openai", "OpenAI"}
        /\ req[p].outcome = "MissingCredential" =>
              /\ settings.provider \in {"openai", "OpenAI"}
              /\ settings.openai_api_key \in {NULL, ""}

\* call_llm has just failed for want of a key
C9_Witness ==
    \E p \in Procs :
        /\ req[p].pc = "raised"
        /\ req[p].outcome = "MissingCredential"
        /\ Len(session[p]) = 1

\* the same, for an unsupported provider
C9_WitnessUnsupported ==
    \E p \in Procs :
        req[p].pc = "raised" /\ req[p].outcome = "UnsupportedBackend"

\* C10: a request rejected as InvalidInput has added no row to its Session
\* and has no row in the committed log, while it is being rejected and
\* after it has finished.
C10_NoWriteBeforeValidation ==
    \A p \in Procs : req[p].outcome = "InvalidInput" =>
        /\ session[p] = <<>>
        /\ RowsOf(log, req[p].rid) = {}
        /\ req[p].calls = 0

\* a chat request has just been rejected while the log holds rows of
\* another request
C10_Witness ==
    \E p \in Procs :
        /\ req[p].pc = "raised"
        /\ req[p].outcome = "InvalidInput"
        /\ req[p].kind = "chat"
        /\ log # <<>>

----------------------------------------------------------------------------
(* Properties of the direct calls (SpecCalls) *)

Built == call.op = "build_llm_messages"

\* positions of the assembled list whose content is t
At(t) == {i \in 1..Len(call.out) : call.out[i].content = t}

\* stored rows that made it into the assembled list
Included == {m \in Range(log) : At(m.text) # {}}

\* C3: the assembled list is never empty, its last entry is the current
\* input with the role given, and the current input is appended once.
C3_LastEntryIsCurrent ==
    Built =>
        /\ Len(call.out) >= 1
        /\ call.out[Len(call.out)] =
              Entry(call.args.current_role, call.args.current_text)
        /\ At(call.args.current_text) = {Len(call.out)}

\* the assembler ran on a non-empty log with an empty window
C3_Witness ==
    /\ Built
    /\ call.args.window = 0
    /\ log # <<>>
    /\ call.args.limit = 0

ExpectedRole(r) ==
    CASE r \in {"user", "User"} -> "user"
      [] r = "assistant" -> "assistant"
      [] OTHER -> "system"

C5_LastNReturnsN ==
    call.op = "get_last_n_messages" =>
        LET n == call.args.n
            out == call.out
        IN /\ \A i \in 1..Len(out), j \in 1..Len(out) :
                 i < j => out[i].ts <= out[j].ts
           /\ n <= 0 => out = <<>>
           /\ n > Len(log) => Range(out) = Range(log) /\ Len(out) = Len(log)
           /\ (n > 0 /\ n <= Len(log)) => Len(out) = n
           /\ n > 0 => Len(out) <= n

InstructionTexts == {"STATIC", "STRUCT", "OVR"}

SummaryTexts == {summaries[i].summary_text : i \in 1..Len(summaries)}

MessageTexts == {log[i].text : i \in 1..Len(log)}

\* the section an entry of the assembled list belongs to, by its content
Section(e) ==
    CASE e.content \in InstructionTexts -> 1
      [] e.content \in SummaryTexts -> 2
      [] e.content \in MessageTexts -> 3
      [] e.content = call.args.current_text -> 4
      [] OTHER -> 0

\* C6: the entries come in four sections in this order: instructions
\* (static, structure, override, each present exactly when it is
\* non-empty), summaries, short-term messages, the one current entry.
C6_SectionsInOrder ==
    Built =>
        LET out == call.out
            sec == [i \in 1..Len(out) |-> Section(out[i])]
        IN
        /\ \A i \in 1..Len(out) : sec[i] # 0
        /\ \A i \in 1..(Len(out) - 1) : sec[i] <= sec[i + 1]
        /\ {i \in 1..Len(out) : sec[i] = 4} = {Len(out)}
        /\ \A i \in At("STATIC"), j \in At("STRUCT") \cup At("OVR") : i < j
        /\ \A i \in At("STRUCT"), j \in At("OVR") : i < j
        /\ \A t \in InstructionTexts :
              Cardinality(At(t)) =
                 IF t \in {settings.prompt_static, settings.prompt_structure,
                           settings.system_prompt_override}
                 THEN 1 ELSE 0

\* an assembled list with all three instructions, a summary and a stored
\* message
C6_Witness ==
    /\ Built
    /\ At("STATIC") # {} /\ At("STRUCT") # {} /\ At("OVR") # {}
    /\ \E e \in Range(call.out) : Section(e) = 2
    /\ \E e \in Range(call.out) : Section(e) = 3

\* the cutoff of the assembler call: now - short_window
Cutoff == clock - call.args.window

\* the stored rows newer than the cutoff
NewerThanCutoff == {m \in Range(log) : m.ts > Cutoff}

IsMessageEntry(e) == e.content \in MessageTexts

\* the short-term section of the assembled list
ShortSection == SelectSeq(call.out, IsMessageEntry)

\* the timestamp of the stored row with text t
TsOf(t) == (CHOOSE m \in Range(log) : m.text = t).ts

\* C11: the short-term section holds exactly the stored messages whose
\* timestamp is strictly greater than cutoff = now - short_window (one entry
\* each; a message with ts = cutoff is left out, none newer is omitted), in
\* ascending timestamp order.
C11_WindowIsStrictlyAfterCutoff ==
    Built =>
        LET short == ShortSection
            newer == NewerThanCutoff
        IN /\ Len(short) = Cardinality(newer)
           /\ {short[i].content : i \in 1..Len(short)} =
                 {m.text : m \in newer}
           /\ \A i \in 1..(Len(short) - 1) :
                 TsOf(short[i].content) <= TsOf(short[i + 1].content)

\* the log holds a message exactly at the cutoff and a newer one
C11_Witness ==
    /\ Built
    /\ \E m \in Range(log) : m.ts = Cutoff
    /\ \E m \in Range(log) : m.ts > Cutoff

----------------------------------------------------------------------------
(* Properties of the backend call (Spec) *)

\* a 2xx response whose body is JSON but lacks the reply field of the
\* configured backend, or has it in another shape: the body is not an
\* object, "message" is not an object, "choices" is empty or missing, the
\* content is absent
LacksReply(cfg, resp) ==
    /\ resp.status = "ok"
    /\ resp.shape # "not_json"
    /\ \/ resp.shape # (IF Lower(cfg.provider) = "ollama"
                        THEN "message_obj" ELSE "choices_msg")
       \/ resp.content = ABSENT

\* C13 as stated: for every backend, a request whose network call came back
\* 2xx without a well-formed reply field fails with BackendProtocolError:
\* it neither goes on with a reply nor fails in another way.
C13_MalformedReplyIsProtocolError ==
    \A p \in Procs :
        (req[p].pc \in {"returning", "raised"}
         /\ LacksReply(settings, req[p].resp))
            => /\ req[p].pc = "raised"
               /\ req[p].outcome = "BackendProtocolError"

\* the outcomes of a request that got as far as its network call
AfterCallOutcomes ==
    {"ok", "StoreError", "BackendUnavailable", "BackendProtocolError"}

\* C14: a request issues at most one network call; it has issued exactly one
\* when it awaits the response, when it goes on with a reply, when it ends
\* with a reply or a backend failure, and whenever call_llm was entered
\* under a valid configuration.  In particular a request that failed with
\* BackendUnavailable has issued one call, not two.
C14_AtMostOneCallNoRetry ==
    \A p \in Procs :
        /\ req[p].calls \in {0, 1}
        /\ req[p].pc \in {"awaiting", "returning"} => req[p].calls = 1
        /\ req[p].outcome \in AfterCallOutcomes => req[p].calls = 1
        /\ (req[p].text # NULL /\ call_llm_begin(settings).raised = "none")
              => req[p].calls = 1
        /\ req[p].resp # NoResp => req[p].calls = 1

\* a transport failure has come back and the handler has raised
C14_Witness ==
    \E p \in Procs :
        /\ req[p].pc = "raised"
        /\ req[p].outcome = "BackendUnavailable"
        /\ req[p].resp.status \in {"connect_error", "http_error"}
        /\ req[p].calls = 1

----------------------------------------------------------------------------
(* Properties of the commit (Spec) *)

\* the request ids with a row in the committed log
CommittedRids == {m.req : m \in Range(log)}

TriggerRows(rid) == {m \in RowsOf(log, rid) : m.role \in {"user", "event"}}

ReplyRows(rid) == {m \in RowsOf(log, rid) : m.role = "assistant"}

\* C15: in every committed state of the log a request's triggering row is
\* there exactly when its assistant row is (one of each); a request that has
\* not finished (awaiting its backend call, returning, raising) has no row
\* in the committed log, its rows are pending in its own Session only.
C15_InputAndReplyCommittedTogether ==
    /\ \A rid \in CommittedRids :
          /\ Cardinality(TriggerRows(rid)) = 1
          /\ Cardinality(ReplyRows(rid)) = 1
    /\ \A p \in Procs :
          req[p].pc # "done" => RowsOf(log, req[p].rid) = {}
    /\ \A p \in Procs :
          req[p].pc = "done" /\ req[p].outcome # "ok"
             => RowsOf(log, req[p].rid) = {}

\* one request awaits its backend call, its triggering row pending, while
\* the rows of another request are committed
C15_Witness ==
    \E p \in Procs :
        /\ req[p].pc = "awaiting"
        /\ Len(session[p]) = 1
        /\ CommittedRids # {}
        /\ req[p].rid \notin CommittedRids

====
